---- MODULE Spec2Model ----
(***************************************************************************)
(* A model of dijkstra.py: find_routes calling dijkstras_shortest_path,    *)
(* which resolves two host addresses to routers (find_router_for_ip) and   *)
(* runs get_shortest_path over the router dictionary.                      *)
(*                                                                         *)
(* Representation of the Python values:                                    *)
(*   - a dotted address text is the sequence of its '.'-separated tokens,  *)
(*     <<"10","0","0","1">>; a netmask text "/24" is the sequence of its   *)
(*     '/'-separated parts, <<"", "24">>;                                  *)
(*   - a Python int used for bit arithmetic is the set of the positions of *)
(*     its 1 bits (Python ints are unbounded and the values do not fit     *)
(*     TLC's integers);                                                    *)
(*   - the routers dictionary is the sequence of its entries in insertion  *)
(*     (iteration) order;                                                  *)
(*   - None is the empty tuple.                                            *)
(***************************************************************************)
EXTENDS Integers, Sequences, FiniteSets, TLC

VARIABLES
    routers,         \* the routers dictionary read from the JSON file
    pc,              \* position: "idle", "search", "walk", "done", "raised"
    src_ip,          \* arguments of the current dijkstras_shortest_path call
    dest_ip,
    src_router,      \* results of find_router_for_ip
    dest_router,
    distances,       \* get_shortest_path locals
    unvisited,
    previous,
    current_router,
    path,
    error            \* the exception that left the call, "" when none

vars == <<routers, pc, src_ip, dest_ip, src_router, dest_router, distances,
          unvisited, previous, current_router, path, error>>

\* ------------------------------------------------------------------ bounds

\* Largest administrative distance drawn for a link.
MaxAd == 1

\* ------------------------------------------------------------ Python values

None == <<>>

\* math.inf, kept apart from every weight sum.
inf == -1

\* math.inf + x is math.inf.
Plus(a, b) == IF a = inf THEN inf ELSE a + b

\* a < b on floats with math.inf.
Less(a, b) == IF a = inf THEN FALSE ELSE IF b = inf THEN TRUE ELSE a < b

Ok(v) == [raised |-> FALSE, value |-> v]

Raise(e) == [raised |-> TRUE, error |-> e]

\* The decimal tokens of the model's vocabulary; any other token is not a
\* number to int().
DecimalTokens ==
    {"0", "1", "2", "3", "5", "9", "10", "16", "24", "32", "33", "168",
     "192", "200", "257"}

\* int(token) for a decimal token.
int(t) ==
    CASE t = "0" -> 0      [] t = "1" -> 1      [] t = "2" -> 2
      [] t = "3" -> 3      [] t = "5" -> 5      [] t = "9" -> 9
      [] t = "10" -> 10    [] t = "16" -> 16    [] t = "24" -> 24
      [] t = "32" -> 32    [] t = "33" -> 33    [] t = "168" -> 168
      [] t = "192" -> 192  [] t = "200" -> 200  [] t = "257" -> 257

\* --- unbounded non-negative ints as the sets of the positions of their
\* 1 bits (position 0 is the lowest bit)

\* The int of a natural number below 2^31.
Bits(n) == {i \in 0..30 : (n \div 2^i) % 2 = 1}

\* k copies of digit x (a non-positive count gives the empty string, as
\* Python's str * int does).
Repeat(x, k) == IF k <= 0 THEN <<>> ELSE [i \in 1..k |-> x]

\* v << k
ShiftLeft(v, k) == {i + k : i \in v}

\* a | b
BitOr(a, b) == a \cup b

\* a & b
BitAnd(a, b) == a \cap b

\* int(s, 2) for a string s of binary digits, most significant first.
IntOfBinary(s) == {Len(s) - j : j \in {k \in 1..Len(s) : s[k] = 1}}

\* ------------------------------------------------------------ address codec

RECURSIVE ipv4_octets(_, _, _)
\* The loop of ipv4_to_value from index i (0-based) with the value so far:
\* split('.')[i] raises IndexError past the last token, int() raises
\* ValueError on a token that is no number; nothing checks the range of an
\* octet or that the text ends after the fourth token.
ipv4_octets(tokens, i, value) ==
    IF i = 4 THEN Ok(value)
    ELSE IF i + 1 > Len(tokens) THEN Raise("IndexError")
    ELSE IF tokens[i + 1] \notin DecimalTokens THEN Raise("ValueError")
    ELSE ipv4_octets(tokens, i + 1,
            BitOr(value, ShiftLeft(Bits(int(tokens[i + 1])), 8 * (3 - i))))

ipv4_to_value(ipv4_addr) == ipv4_octets(ipv4_addr, 0, {})

\* slash.split('/')[1], int(), then '1' * value + '0' * (32 - value) read as
\* a binary number.
get_subnet_mask_value(slash) ==
    IF Len(slash) < 2 THEN Raise("IndexError")
    ELSE IF slash[2] \notin DecimalTokens THEN Raise("ValueError")
    ELSE LET value == int(slash[2])
         IN  Ok(IntOfBinary(Repeat(1, value) \o Repeat(0, 32 - value)))

ips_same_subnet(ip1, ip2, slash) ==
    LET v1 == ipv4_to_value(ip1)
        v2 == ipv4_to_value(ip2)
        mask == get_subnet_mask_value(slash)
    IN  IF v1.raised THEN v1
        ELSE IF v2.raised THEN v2
        ELSE IF mask.raised THEN mask
        ELSE Ok(BitAnd(v1.value, mask.value) = BitAnd(v2.value, mask.value))

\* --------------------------------------------------------- the dictionary

Keys(rs) == {rs[i].ip : i \in 1..Len(rs)}

\* routers[r]
Entry(rs, r) == rs[CHOOSE i \in 1..Len(rs) : rs[i].ip = r]

RECURSIVE find_router_from(_, _, _)
\* The for loop of find_router_for_ip from the i-th entry on.
find_router_from(rs, ip, i) ==
    IF i > Len(rs) THEN Ok(None)
    ELSE LET same == ips_same_subnet(ip, rs[i].ip, rs[i].netmask)
         IN  IF same.raised THEN same
             ELSE IF same.value THEN Ok(rs[i].ip)
             ELSE find_router_from(rs, ip, i + 1)

\* Mutant: the loop without its break returns the last matching router.
RECURSIVE find_router_last(_, _, _, _)
find_router_last(rs, ip, i, router) ==
    IF i > Len(rs) THEN Ok(router)
    ELSE LET same == ips_same_subnet(ip, rs[i].ip, rs[i].netmask)
         IN  IF same.raised THEN same
             ELSE find_router_last(rs, ip, i + 1,
                                   IF same.value THEN rs[i].ip ELSE router)

find_router_no_break(rs, ip) == find_router_last(rs, ip, 1, None)

find_router_for_ip(rs, ip) == find_router_from(rs, ip, 1)

\* ------------------------------------------------------------------ inputs

RA == <<"10", "0", "0", "1">>
RB == <<"10", "0", "1", "1">>
RC == <<"10", "0", "2", "1">>
RD == <<"10", "0", "3", "1">>

\* Host addresses: one in RA's /24, one in RC's /24, one in no /24 of the
\* network; then texts a well-formed address never has: three octets, five
\* octets, a token that is no number, an octet above 255.
HostA == <<"10", "0", "0", "5">>
HostC == <<"10", "0", "2", "200">>
HostNone == <<"192", "168", "0", "9">>
HostShort == <<"10", "0", "2">>
HostLong == <<"10", "0", "2", "200", "9">>
HostWord == <<"10", "0", "x", "5">>
HostBig == <<"10", "0", "1", "257">>

Hosts == {HostA, HostC, HostNone, HostShort, HostLong, HostWord, HostBig}

Slash(prefix) == <<"", prefix>>

\* The dictionary with the given keys in the given order, netmasks and
\* weighted directed links (a function from <<router, neighbor>> to "ad").
Network(order, prefix, ad) ==
    [i \in 1..Len(order) |->
        [ip |-> order[i],
         netmask |-> Slash(prefix[i]),
         connections |->
            [n \in {m \in Keys([j \in 1..Len(order) |-> [ip |-> order[j]]]) :
                        <<order[i], m>> \in DOMAIN ad}
                |-> [ad |-> ad[<<order[i], n>>]]]]]

\* Candidate links of the four-router networks: two two-hop routes from RA
\* to RC, nothing back from RC.
LinkSlots == {<<RA, RB>>, <<RA, RD>>, <<RB, RC>>, <<RD, RC>>}

\* The direct link from RA to RC: absent, or heavier than any other link (and
\* lighter than, as heavy as or heavier than a two-hop route).
DirectLinks == {<<>>, <<RA, RC>> :> (MaxAd + 1)}

\* Every choice of links among the slots and of weights 0..MaxAd, with or
\* without the direct link, all routers serving their own /24.
LinkNetworks ==
    UNION {{Network(<<RA, RB, RC, RD>>, <<"24", "24", "24", "24">>,
                    ad @@ direct) :
                ad \in [links -> 0..MaxAd], direct \in DirectLinks} :
            links \in SUBSET LinkSlots}

\* Prefix lengths drawn for RA and RC, among them one above 32.
Prefixes == {"0", "16", "24", "32", "33"}

RingLinks ==
    (<<RA, RB>> :> 1) @@ (<<RB, RD>> :> 1) @@ (<<RD, RC>> :> 1)
        @@ (<<RC, RA>> :> 1)

\* A one-way ring RA, RB, RD, RC of four routers where RA and RC serve
\* subnets of any prefix, so that subnets overlap and the scan order decides.
MaskNetworks ==
    {Network(<<RA, RB, RC, RD>>, <<pa, "24", pc0, "24">>, RingLinks) :
        pa \in Prefixes, pc0 \in Prefixes}

\* Routers A-B weight 10, B-C weight 5, A-C weight 20, links both ways.
ExampleNetwork ==
    Network(<<RA, RB, RC>>, <<"24", "24", "24">>,
            (<<RA, RB>> :> 10) @@ (<<RB, RA>> :> 10) @@ (<<RB, RC>> :> 5)
                @@ (<<RC, RB>> :> 5) @@ (<<RA, RC>> :> 20)
                @@ (<<RC, RA>> :> 20))

Networks == LinkNetworks \cup MaskNetworks \cup {ExampleNetwork}

\* --------------------------------------------------------- get_shortest_path

\* distances = {router: math.inf ...}; distances[src_router] = 0. The
\* assignment adds the key when src_router is no router (None).
InitialDistances(rs, s) ==
    [r \in Keys(rs) \cup {s} |-> IF r = s THEN 0 ELSE inf]

InitialPrevious(rs) == [r \in Keys(rs) |-> None]

\* The routers min(unvisited, key=...) can return: min keeps the first
\* smallest element in the iteration order of the set, an order the language
\* leaves unspecified and which changes with the hash seed of the run.
MinCandidates(unv, dist) ==
    {r \in unv : \A q \in unv : ~Less(dist[q], dist[r])}

\* Mutant: every unvisited neighbor takes the new distance, the comparison
\* with its current distance is missing.
ImprovedAlways(rs, cur, unv, dist) ==
    {n \in DOMAIN Entry(rs, cur).connections : n \in unv}

\* The neighbors of cur whose distance the for loop lowers, given the
\* unvisited set after cur left it.
Improved(rs, cur, unv, dist) ==
    {n \in DOMAIN Entry(rs, cur).connections :
        /\ n \in unv
        /\ Less(Plus(dist[cur], Entry(rs, cur).connections[n].ad), dist[n])}

RelaxedDistances(rs, cur, unv, dist) ==
    [r \in DOMAIN dist |->
        IF r \in Improved(rs, cur, unv, dist)
        THEN Plus(dist[cur], Entry(rs, cur).connections[r].ad)
        ELSE dist[r]]

RelaxedPrevious(rs, cur, unv, dist, prev) ==
    [r \in DOMAIN prev |->
        IF r \in Improved(rs, cur, unv, dist) THEN cur ELSE prev[r]]

\* ------------------------------------------------------------------ actions

Init ==
    /\ routers \in Networks
    /\ pc = "idle"
    /\ src_ip = None
    /\ dest_ip = None
    /\ src_router = None
    /\ dest_router = None
    /\ distances = <<>>
    /\ unvisited = {}
    /\ previous = <<>>
    /\ current_router = None
    /\ path = <<>>
    /\ error = ""

\* No frame of get_shortest_path is alive.
NoFrame ==
    /\ distances' = <<>>
    /\ unvisited' = {}
    /\ previous' = <<>>
    /\ current_router' = None
    /\ path' = <<>>

\* find_routes calls dijkstras_shortest_path(routers, s, d): both routers are
\* looked up and get_shortest_path sets up its tables. An exception of a
\* lookup leaves dijkstras_shortest_path, find_routes and main, and the
\* program ends.
Call(s, d) ==
    /\ pc = "idle"
    /\ \E fs \in {find_router_for_ip(routers, s)} :
       \E fd \in {IF fs.raised THEN fs ELSE find_router_for_ip(routers, d)} :
        /\ src_ip' = s
        /\ dest_ip' = d
        /\ IF fd.raised
           THEN /\ pc' = "raised"
                /\ error' = fd.error
                /\ src_router' = IF fs.raised THEN None ELSE fs.value
                /\ dest_router' = None
                /\ NoFrame
           ELSE /\ pc' = "search"
                /\ error' = error
                /\ src_router' = fs.value
                /\ dest_router' = fd.value
                /\ distances' = InitialDistances(routers, fs.value)
                /\ unvisited' = Keys(routers)
                /\ previous' = InitialPrevious(routers)
                /\ current_router' = None
                /\ path' = <<>>
        /\ UNCHANGED routers

\* Lines 198-199, reached when the while loop ends or breaks.
StartWalk ==
    /\ pc' = "walk"
    /\ path' = <<>>
    /\ current_router' = dest_router

\* One iteration of the search loop that selects the destination and breaks.
SearchBreak(cur) ==
    /\ pc = "search"
    /\ cur \in MinCandidates(unvisited, distances)
    /\ cur = dest_router
    /\ StartWalk
    /\ UNCHANGED <<routers, src_ip, dest_ip, src_router, dest_router,
                   distances, unvisited, previous, error>>

\* Mutant: the visited router is deleted from the dictionary itself, as when
\* unvisited is the dictionary and not a set of its keys.
SearchVisitConsuming(cur) ==
    /\ pc = "search"
    /\ cur \in MinCandidates(unvisited, distances)
    /\ cur # dest_router
    /\ current_router' = cur
    /\ unvisited' = unvisited \ {cur}
    /\ distances' = RelaxedDistances(routers, cur, unvisited \ {cur}, distances)
    /\ previous' =
         RelaxedPrevious(routers, cur, unvisited \ {cur}, distances, previous)
    /\ routers' = SelectSeq(routers, LAMBDA e : e.ip # cur)
    /\ UNCHANGED <<pc, src_ip, dest_ip, src_router, dest_router, path, error>>

\* Mutant: the visited router stays in the unvisited set.
SearchVisitNoRemove(cur) ==
    /\ pc = "search"
    /\ cur \in MinCandidates(unvisited, distances)
    /\ cur # dest_router
    /\ current_router' = cur
    /\ unvisited' = unvisited
    /\ distances' = RelaxedDistances(routers, cur, unvisited \ {cur}, distances)
    /\ previous' =
         RelaxedPrevious(routers, cur, unvisited \ {cur}, distances, previous)
    /\ UNCHANGED <<routers, pc, src_ip, dest_ip, src_router, dest_router,
                   path, error>>

\* One iteration that visits cur: it leaves the unvisited set and the
\* distances of its unvisited neighbors are lowered.
SearchVisit(cur) ==
    /\ pc = "search"
    /\ cur \in MinCandidates(unvisited, distances)
    /\ cur # dest_router
    /\ current_router' = cur
    /\ unvisited' = unvisited \ {cur}
    /\ distances' = RelaxedDistances(routers, cur, unvisited \ {cur}, distances)
    /\ previous' =
         RelaxedPrevious(routers, cur, unvisited \ {cur}, distances, previous)
    /\ UNCHANGED <<routers, pc, src_ip, dest_ip, src_router, dest_router,
                   path, error>>

\* The while condition fails: every router was visited.
SearchExit ==
    /\ pc = "search"
    /\ unvisited = {}
    /\ StartWalk
    /\ UNCHANGED <<routers, src_ip, dest_ip, src_router, dest_router,
                   distances, unvisited, previous, error>>

\* Mutant: the loop without its break on dest_router == src_router.
WalkGoesOnNoBreak == current_router # None

\* The reconstruction loop runs another iteration: its condition holds and
\* the break is not taken.
WalkGoesOn == current_router # None /\ dest_router # src_router

\* One iteration of the reconstruction loop.
WalkStep ==
    /\ pc = "walk"
    /\ WalkGoesOn
    /\ path' = Append(path, current_router)
    /\ current_router' = previous[current_router]
    /\ UNCHANGED <<routers, pc, src_ip, dest_ip, src_router, dest_router,
                   distances, unvisited, previous, error>>

\* Mutant: the path is returned as collected, destination first.
NotReversed(p) == p

\* path.reverse()
Reversed(p) == [i \in 1..Len(p) |-> p[Len(p) + 1 - i]]

\* The reconstruction loop ends or breaks; the path is reversed and returned
\* to find_routes, and the tables of the call are gone.
Return ==
    /\ pc = "walk"
    /\ ~WalkGoesOn
    /\ pc' = "done"
    /\ path' = Reversed(path)
    /\ distances' = <<>>
    /\ unvisited' = {}
    /\ previous' = <<>>
    /\ current_router' = None
    /\ UNCHANGED <<routers, src_ip, dest_ip, src_router, dest_router, error>>

\* find_routes prints the route and goes on to the next pair.
PrintRoute ==
    /\ pc = "done"
    /\ pc' = "idle"
    /\ src_ip' = None
    /\ dest_ip' = None
    /\ src_router' = None
    /\ dest_router' = None
    /\ NoFrame
    /\ UNCHANGED <<routers, error>>

Next ==
    \/ \E s \in Hosts, d \in Hosts : Call(s, d)
    \/ \E cur \in unvisited : SearchBreak(cur)
    \/ \E cur \in unvisited : SearchVisit(cur)
    \/ SearchExit
    \/ WalkStep
    \/ Return
    \/ PrintRoute

Spec == Init /\ [][Next]_vars

\* ------------------------------------------------------- reference notions

Range(p) == {p[i] : i \in 1..Len(p)}

Linked(rs, a, b) == b \in DOMAIN Entry(rs, a).connections

\* The directed paths of links from s to d that visit no router twice (with
\* weights >= 0 a lightest path is among them).
Routes(rs, s, d) ==
    {p \in UNION {[1..k -> Keys(rs)] : k \in 1..Len(rs)} :
        /\ p[1] = s
        /\ p[Len(p)] = d
        /\ \A i, j \in 1..Len(p) : p[i] = p[j] => i = j
        /\ \A i \in 1..(Len(p) - 1) : Linked(rs, p[i], p[i + 1])}

RECURSIVE RouteWeight(_, _)
RouteWeight(rs, p) ==
    IF Len(p) < 2 THEN 0
    ELSE Entry(rs, p[1]).connections[p[2]].ad + RouteWeight(rs, Tail(p))

\* Both hosts resolved, to different routers.
Resolved == src_router # None /\ dest_router # None

Apart == Resolved /\ src_router # dest_router

Reachable == Routes(routers, src_router, dest_router) # {}

\* --- the search as a function of the iteration order of the unvisited set

Orders(rs) ==
    {o \in [1..Len(rs) -> Keys(rs)] : \A i, j \in 1..Len(rs) : o[i] = o[j] => i = j}

\* What min() returns when the set iterates in the order o.
MinUnder(unv, dist, o) ==
    o[CHOOSE i \in 1..Len(o) :
        /\ o[i] \in MinCandidates(unv, dist)
        /\ \A j \in 1..(i - 1) : o[j] \notin MinCandidates(unv, dist)]

RECURSIVE SearchUnder(_, _, _, _, _, _)
SearchUnder(rs, d, unv, dist, prev, o) ==
    IF unv = {} THEN prev
    ELSE LET cur == MinUnder(unv, dist, o)
         IN  IF cur = d THEN prev
             ELSE SearchUnder(rs, d, unv \ {cur},
                              RelaxedDistances(rs, cur, unv \ {cur}, dist),
                              RelaxedPrevious(rs, cur, unv \ {cur}, dist, prev),
                              o)

RECURSIVE WalkFrom(_, _, _, _, _)
WalkFrom(prev, s, d, cur, acc) ==
    IF cur = None \/ d = s THEN Reversed(acc)
    ELSE WalkFrom(prev, s, d, prev[cur], Append(acc, cur))

\* The route get_shortest_path returns in a run whose sets iterate in order o.
RouteUnder(rs, s, d, o) ==
    WalkFrom(SearchUnder(rs, d, Keys(rs), InitialDistances(rs, s),
                         InitialPrevious(rs), o),
             s, d, d, <<>>)

\* --- containment of a host in the subnet of the i-th router

MaskOf(rs, i) == get_subnet_mask_value(rs[i].netmask).value

Contains(rs, i, ip) ==
    LET mask == MaskOf(rs, i)
    IN  BitAnd(ipv4_to_value(ip).value, mask)
            = BitAnd(ipv4_to_value(rs[i].ip).value, mask)

FirstMatch(rs, ip, r) ==
    \/ r = None /\ \A i \in 1..Len(rs) : ~Contains(rs, i, ip)
    \/ \E i \in 1..Len(rs) :
        /\ rs[i].ip = r
        /\ Contains(rs, i, ip)
        /\ \A j \in 1..(i - 1) : ~Contains(rs, j, ip)

WellFormedAddress(t) ==
    /\ Len(t) = 4
    /\ \A i \in 1..4 : t[i] \in DecimalTokens /\ int(t[i]) \in 0..255

PrefixInRange(slash) ==
    /\ Len(slash) = 2
    /\ slash[2] \in DecimalTokens
    /\ int(slash[2]) \in 0..32

\* ------------------------------------------------------------------ claims

\* C1: when both hosts resolve to different routers S and D and D can be
\* reached from S, the returned route is a directed path of existing links
\* from S to D and no directed path from S to D weighs less.
C1_ShortestRoute ==
    (pc = "done" /\ Apart /\ Reachable) =>
        /\ path \in Routes(routers, src_router, dest_router)
        /\ \A p \in Routes(routers, src_router, dest_router) :
              RouteWeight(routers, path) <= RouteWeight(routers, p)

\* C1 witness: the two-hop route through RB was returned although RA has a
\* direct link to RC.
C1_Witness ==
    /\ pc = "done"
    /\ Apart
    /\ path = <<RA, RB, RC>>
    /\ Linked(routers, RA, RC)

\* C2 as stated: the returned sequence leaves out the source router and ends
\* with the destination router; in the example network the route from RA to
\* RC is [RB, RC].
C2_Original ==
    (pc = "done" /\ Apart /\ Reachable) =>
        /\ Len(path) > 0
        /\ src_router \notin Range(path)
        /\ path[Len(path)] = dest_router
        /\ (routers = ExampleNetwork /\ src_router = RA /\ dest_router = RC
              => path = <<RB, RC>>)

\* C2 amended: the returned sequence begins with the source router, which
\* occurs nowhere else in it, and ends with the destination router; in the
\* example network the route from RA to RC is [RA, RB, RC].
C2_SourceIncluded ==
    (pc = "done" /\ Apart /\ Reachable) =>
        /\ Len(path) > 1
        /\ path[1] = src_router
        /\ \A i \in 2..Len(path) : path[i] # src_router
        /\ path[Len(path)] = dest_router
        /\ (routers = ExampleNetwork /\ src_router = RA /\ dest_router = RC
              => path = <<RA, RB, RC>>)

\* C2 witness: the example network, hosts resolving to RA and RC.
C2_Witness ==
    /\ pc = "done"
    /\ routers = ExampleNetwork
    /\ src_router = RA
    /\ dest_router = RC

\* C3 as stated: when both hosts resolve and no directed path leads from the
\* source router to the destination router, what is returned is no list of
\* routers (neither the empty list nor a route).
C3_Original ==
    (pc = "done" /\ Resolved /\ ~Reachable) => path \notin Seq(Keys(routers))

\* C4 as stated: a host in no router's subnet ends the call with an error;
\* the search never runs with an unresolved router and nothing is returned.
C4_Original == pc \in {"search", "walk", "done"} => Resolved

\* C5: when both hosts resolve to the same router the empty sequence is
\* returned.
C5_SameRouterEmpty ==
    (pc = "done" /\ src_router # None /\ src_router = dest_router) =>
        path = <<>>

\* C5 witness: both hosts resolve to a router that has links.
C5_Witness ==
    /\ pc = "done"
    /\ src_router # None
    /\ src_router = dest_router
    /\ DOMAIN Entry(routers, src_router).connections # {}

\* C6 as stated: the returned route is the same in every run on the same
\* inputs, whatever the iteration order of the unvisited set.
C6_Original ==
    pc = "done" =>
        \A o \in Orders(routers) :
            RouteUnder(routers, src_router, dest_router, o) = path

\* C7: when the lookups of a call have returned, each resolved router is the
\* first entry in scan order whose own mask makes host and router address
\* agree, and None only when no entry does.
C7_FirstMatch ==
    (pc = "search" /\ current_router = None) =>
        /\ FirstMatch(routers, src_ip, src_router)
        /\ FirstMatch(routers, dest_ip, dest_router)

\* C7 witness: a host of RC's /24 resolved to RA, whose wider subnet comes
\* first in the scan.
C7_Witness ==
    /\ pc = "search"
    /\ src_ip = HostC
    /\ src_router = RA
    /\ Contains(routers, 3, HostC)

\* C8 as stated: a call with an address text that is not four octets in
\* 0..255, or that evaluates a netmask whose prefix is outside 0..32, ends
\* with an error.
C8_Original ==
    (/\ pc # "idle"
     /\ \/ ~WellFormedAddress(src_ip)
        \/ ~WellFormedAddress(dest_ip)
        \/ ~PrefixInRange(routers[1].netmask)) => pc = "raised"

\* C9: no step changes the routers dictionary, and every search starts from
\* tables that hold only the initial values: distance 0 for the source and
\* infinity elsewhere, every router unvisited, no predecessor.
C9_Frame ==
    /\ [][routers' = routers]_vars
    /\ [](pc = "search" /\ current_router = None =>
            /\ unvisited = Keys(routers)
            /\ DOMAIN distances = Keys(routers) \cup {src_router}
            /\ \A r \in DOMAIN distances :
                  distances[r] = IF r = src_router THEN 0 ELSE inf
            /\ DOMAIN previous = Keys(routers)
            /\ \A r \in Keys(routers) : previous[r] = None)

\* C9 witness: a call has returned a three-router route.
C9_Witness == pc = "done" /\ Len(path) = 3

\* The steps a call that reached the search can still take, at most.
StepsLeft ==
    CASE pc = "search" -> Cardinality(unvisited) + Len(routers) + 3
      [] pc = "walk" -> Len(routers) + 1 - Len(path)
      [] OTHER -> 0

\* C10: get_shortest_path terminates, also with an unresolved router. Every
\* iteration of the search that does not stop removes exactly one router of
\* the unvisited set; the backward walk never meets a router twice, so the
\* path never grows longer than the dictionary; every step of the search and
\* of the walk lowers the bound StepsLeft, which stays positive, and from
\* every state of the search and the walk a further step can be taken.
C10_Terminates ==
    /\ [][pc = "search" /\ pc' = "search" =>
            /\ unvisited' \subseteq unvisited
            /\ Cardinality(unvisited') = Cardinality(unvisited) - 1]_vars
    /\ [](pc = "walk" => current_router \notin Range(path))
    /\ [](pc \in {"search", "walk"} => StepsLeft > 0)
    /\ [][(pc = "search" \/ pc = "walk") => StepsLeft' < StepsLeft]_vars
    /\ [](pc \in {"search", "walk"} => ENABLED <<Next>>_vars)

\* C10 witness: a call whose source host resolved to no router has returned.
C10_Witness ==
    /\ pc = "done"
    /\ src_router = None
    /\ dest_router = RC
    /\ path = <<RC>>

====
